---- MODULE Spec2Model ----
(***************************************************************************)
(* Model of kd_mass_demo: a round-robin multi-agent simulation             *)
(* (src/app.py), its agents (src/agent.py) and the knowledge loader,       *)
(* keyword retriever and text-generation wrapper (src/utils.py).           *)
(*                                                                         *)
(* Text is a sequence of one-character strings, so that str.split,         *)
(* str.strip, the substring test `t in d` and f-string concatenation are   *)
(* computed as Python computes them.  The fixed Chinese literals of the    *)
(* source templates are written with short ASCII stand-ins, named where    *)
(* they are defined.                                                       *)
(***************************************************************************)
EXTENDS Integers, Sequences, FiniteSets, TLC

VARIABLES
    request,        \* the POSTed JSON body and the route it was sent to
    pc,             \* position of the request handler / generator
    agents,         \* list of Agent objects built for this request
    t,              \* outer loop variable of `for t in range(turns)`
    idx,            \* 1-based position of the inner `for agent in agents`
    global_context, \* local variable global_context (text)
    messages_log,   \* local variable messages_log
    out,            \* chunks handed to the consumer of the streamed body
    response,       \* non-streamed HTTP response (status, body), or NoResponse
    llm_inflight,   \* requests sent to the text-generation service, unanswered
    llm_calls,      \* number of requests the text-generation service has received
    llm_outcomes,   \* what the service did with each request it has answered
    fs,             \* the knowledge folder on disk
    fs_log,         \* folders walked by os.walk so far
    probe,          \* input/output cell for the pure functions of utils.py
    runs            \* locals of the handler invocations that run side by side

vars == <<request, pc, agents, t, idx, global_context, messages_log, out,
          response, llm_inflight, llm_calls, llm_outcomes, fs, fs_log, probe,
          runs>>

runVars == <<request, pc, agents, t, idx, global_context, messages_log, out,
             response, llm_inflight, llm_calls, llm_outcomes, fs, fs_log, runs>>

\* ------------------------------------------------------------------ bounds

MaxTurns == 2
MaxAgents == 2
MaxDocs == 3
MaxTopK == 3
MaxFiles == 2
MaxRunTurns == 1

\* ------------------------------------------------------------------- text

Whitespace == {" ", "\n", "\t"}

Min(a, b) == IF a <= b THEN a ELSE b

Max(a, b) == IF a >= b THEN a ELSE b

\* s[:k] of a Python list or str, k of either sign
PySlicePrefix(s, k) ==
    IF k >= 0 THEN SubSeq(s, 1, Min(k, Len(s)))
    ELSE SubSeq(s, 1, Max(0, Len(s) + k))

\* str.strip(): leading and trailing whitespace removed
Strip(s) ==
    LET inked == {i \in 1..Len(s) : s[i] \notin Whitespace}
    IN IF inked = {} THEN <<>>
       ELSE SubSeq(s, CHOOSE i \in inked : \A j \in inked : i <= j,
                      CHOOSE i \in inked : \A j \in inked : j <= i)

\* positions at which a maximal run of non-whitespace starts
TokenStarts(s) ==
    {i \in 1..Len(s) : s[i] \notin Whitespace /\ (i = 1 \/ s[i - 1] \in Whitespace)}

\* last position of the run that starts at i
TokenEnd(s, i) ==
    CHOOSE j \in i..Len(s) :
       /\ \A k \in i..j : s[k] \notin Whitespace
       /\ j = Len(s) \/ s[j + 1] \in Whitespace

\* set(s.split()): the distinct maximal runs of non-whitespace of s
SplitSet(s) == {SubSeq(s, i, TokenEnd(s, i)) : i \in TokenStarts(s)}

\* Python's `sub in s` on str
IsSubstring(sub, s) ==
    \E i \in 0..(Len(s) - Len(sub)) : SubSeq(s, i + 1, i + Len(sub)) = sub

Range(s) == {s[i] : i \in 1..Len(s)}

RECURSIVE Concat(_)
Concat(ss) == IF ss = <<>> THEN <<>> ELSE Head(ss) \o Concat(Tail(ss))

\* sep.join(parts)
RECURSIVE Join(_, _)
Join(sep, parts) ==
    IF parts = <<>> THEN <<>>
    ELSE IF Len(parts) = 1 THEN parts[1]
    ELSE parts[1] \o sep \o Join(sep, Tail(parts))

\* ------------------------------------------------- simple_keyword_retrieval

\* q_tokens = set(query.split())
QTokens(query) == SplitSet(query)

\* the inner loop: one point per distinct token t with `t and t in d`
Score(d, q_tokens) == Cardinality({tk \in q_tokens : tk # <<>> /\ IsSubstring(tk, d)})

\* scored: (score, d) for the documents with score > 0, in document order
RECURSIVE Scored(_, _)
Scored(docs, q_tokens) ==
    IF docs = <<>> THEN <<>>
    ELSE LET sc == Score(Head(docs), q_tokens)
         IN (IF sc > 0 THEN <<<<sc, Head(docs)>>>> ELSE <<>>)
            \o Scored(Tail(docs), q_tokens)

\* InsertDesc with `>` for `>=`: a sort that reverses equal keys
RECURSIVE InsertDescUnstable(_, _)
InsertDescUnstable(sorted, e) ==
    IF sorted = <<>> THEN <<e>>
    ELSE IF Head(sorted)[1] > e[1]
         THEN <<Head(sorted)>> \o InsertDescUnstable(Tail(sorted), e)
         ELSE <<e>> \o sorted

\* position at which list.sort(key, reverse=True) leaves a new element: after
\* every element whose key is >= its own (the sort is stable)
RECURSIVE InsertDesc(_, _)
InsertDesc(sorted, e) ==
    IF sorted = <<>> THEN <<e>>
    ELSE IF Head(sorted)[1] >= e[1]
         THEN <<Head(sorted)>> \o InsertDesc(Tail(sorted), e)
         ELSE <<e>> \o sorted

\* scored.sort(key=lambda x: x[0], reverse=True)
RECURSIVE SortDescStable(_)
SortDescStable(s) ==
    IF s = <<>> THEN <<>>
    ELSE InsertDesc(SortDescStable(SubSeq(s, 1, Len(s) - 1)), s[Len(s)])

\* the early return of line 72
RetrievalGuard(docs, query) == docs = <<>> \/ query = <<>>

\* Fallback returning every document, top_k ignored
FallbackAll(docs, top_k) == docs

\* the zero-match fallback of line 89
Fallback(docs, top_k) == PySlicePrefix(docs, top_k)

simple_keyword_retrieval(docs, query, top_k) ==
    IF RetrievalGuard(docs, query) THEN <<>>
    ELSE LET scored == Scored(docs, QTokens(query))
         IN IF scored = <<>> THEN Fallback(docs, top_k)
            ELSE LET ranked == PySlicePrefix(SortDescStable(scored), top_k)
                 IN [i \in 1..Len(ranked) |-> ranked[i][2]]

\* ------------------------------------------------ load_text_files_from_folder

\* A disk holds one directory tree: disk.path is the only path for which
\* os.path.isdir is true, disk.files the files os.walk yields under it, in
\* walk order, each with the root it was found in.  A file either reads
\* (readable, data) or raises on open/read (err is str(e)).

Home == <<"/", "h">>

\* os.path.expanduser for "~" and "~/..."
ExpandUser(p) == IF p # <<>> /\ Head(p) = "~" THEN Home \o Tail(p) ELSE p

IsDir(disk, p) == p = disk.path

\* os.path.join(root, fname)
PathJoin(root, fname) == root \o <<"/">> \o fname

\* index of the last "." of fname, 0 when there is none
LastDot(fname) ==
    LET dots == {i \in 1..Len(fname) : fname[i] = "."}
    IN IF dots = {} THEN 0 ELSE CHOOSE i \in dots : \A j \in dots : j <= i

\* os.path.splitext(fname)[1]: from the last dot on, unless only dots precede it
SplitExt(fname) ==
    LET i == LastDot(fname)
    IN IF i = 0 \/ (\A j \in 1..(i - 1) : fname[j] = ".") THEN <<>>
       ELSE SubSeq(fname, i, Len(fname))

LowerChar(c) ==
    CASE c = "T" -> "t" [] c = "X" -> "x" [] c = "M" -> "m" [] c = "D" -> "d"
      [] c = "L" -> "l" [] c = "O" -> "o" [] c = "G" -> "g" [] OTHER -> c

\* str.lower()
Lower(s) == [i \in 1..Len(s) |-> LowerChar(s[i])]

\* exts = {".txt", ".md", ".log"}
exts == {<<".", "t", "x", "t">>, <<".", "m", "d">>, <<".", "l", "o", "g">>}

Recognized(fname) == Lower(SplitExt(fname)) \in exts

\* "[F:" fname "]" newline text   stands for   f"【文件：{fname}】\n{text}"
FileDoc(fname, text) == <<"[", "F", ":">> \o fname \o <<"]", "\n">> \o text

\* "[X:" full_path "]" e   stands for   f"【读取失败：{full_path}】{e}"
FailDoc(full_path, e) == <<"[", "X", ":">> \o full_path \o <<"]">> \o e

\* KeepText without the test: an empty file gives a document too
KeepTextAlways(text) == TRUE

\* the `if text:` of line 60
KeepText(text) == text # <<>>

\* body of the inner loop for one file: the documents it appends
DocsOfFile(f) ==
    IF ~Recognized(f.fname) THEN <<>>
    ELSE IF f.readable
         THEN LET text == Strip(f.data)
              IN IF KeepText(text) THEN <<FileDoc(f.fname, text)>> ELSE <<>>
         ELSE <<FailDoc(PathJoin(f.root, f.fname), f.err)>>

RECURSIVE WalkDocs(_)
WalkDocs(files) ==
    IF files = <<>> THEN <<>> ELSE DocsOfFile(Head(files)) \o WalkDocs(Tail(files))

\* whether the call reaches os.walk
Walks(disk, folder_path) ==
    folder_path # <<>> /\ IsDir(disk, ExpandUser(folder_path))

load_text_files_from_folder(disk, folder_path) ==
    IF Walks(disk, folder_path) THEN WalkDocs(disk.files) ELSE <<>>

\* ------------------------------------------------------------ Agent.__init__

\* LoadsFolder testing the mode name "directory"
LoadsFolderDirectory(config) ==
    config.knowledge_mode = "directory" /\ config.knowledge_folder # <<>>

\* the condition of line 37
LoadsFolder(config) ==
    config.knowledge_mode = "folder" /\ config.knowledge_folder # <<>>

\* the truth value Python gives config.knowledge (a str, or another JSON value)
Truthy(v) == v # <<>>

AgentDocs(config, disk) ==
    (IF Truthy(config.knowledge) THEN <<config.knowledge>> ELSE <<>>)
    \o (IF LoadsFolder(config)
        THEN load_text_files_from_folder(disk, config.knowledge_folder)
        ELSE <<>>)

AgentInit(config, disk) ==
    [config |-> config, history |-> <<>>, docs |-> AgentDocs(config, disk)]

\* the folders Agent.__init__ hands to os.walk
AgentWalks(config, disk) ==
    IF LoadsFolder(config) /\ Walks(disk, config.knowledge_folder)
    THEN <<ExpandUser(config.knowledge_folder)>> ELSE <<>>

\* ------------------------------------------------- build_agents_from_request

\* dict.get(key, default)
Get(a, key, default) == IF key \in DOMAIN a THEN a[key] ELSE default

\* ValidEntry without the strip(): a whitespace-only name passes
ValidEntryUnstripped(a) == Get(a, "name", <<>>) # <<>>

\* the `if not name: continue` of lines 21-23
ValidEntry(a) == Strip(Get(a, "name", <<>>)) # <<>>

AgentConfig(a) ==
    LET name == Strip(Get(a, "name", <<>>))
    IN [name |-> name,
        short_name |-> name,
        role_description |-> Get(a, "role", <<>>),
        strategic_preferences |-> Get(a, "strategic_preferences", <<>>),
        knowledge |-> Get(a, "knowledge", <<>>),
        knowledge_mode |-> Get(a, "knowledge_mode", "inline"),
        knowledge_folder |-> Get(a, "knowledge_folder", <<>>)]

\* `break` for `continue`: the first entry without a name ends the list
RECURSIVE build_agents_until_unnamed(_, _)
build_agents_until_unnamed(agents_data, disk) ==
    IF agents_data = <<>> \/ ~ValidEntry(Head(agents_data)) THEN <<>>
    ELSE <<AgentInit(AgentConfig(Head(agents_data)), disk)>>
         \o build_agents_until_unnamed(Tail(agents_data), disk)

RECURSIVE build_agents_from_request(_, _)
build_agents_from_request(agents_data, disk) ==
    IF agents_data = <<>> THEN <<>>
    ELSE (IF ValidEntry(Head(agents_data))
          THEN <<AgentInit(AgentConfig(Head(agents_data)), disk)>> ELSE <<>>)
         \o build_agents_from_request(Tail(agents_data), disk)

RECURSIVE BuildWalks(_, _)
BuildWalks(agents_data, disk) ==
    IF agents_data = <<>> THEN <<>>
    ELSE (IF ValidEntry(Head(agents_data))
          THEN AgentWalks(AgentConfig(Head(agents_data)), disk) ELSE <<>>)
         \o BuildWalks(Tail(agents_data), disk)

\* ---------------------------------------------------------------- call_llm

DigitChars == <<"0", "1", "2", "3", "4", "5", "6", "7", "8", "9">>

\* str(n) of a non-negative int, as the f-strings format turn_idx
RECURSIVE Digits(_)
Digits(n) ==
    IF n < 10 THEN <<DigitChars[n + 1]>>
    ELSE Digits(n \div 10) \o <<DigitChars[(n % 10) + 1]>>

\* repr(e) of the exceptions client.chat.completions.create may raise
ServiceErrors == {<<"E", "r", "r">>}

\* "[LLM!" repr(e) "]"   stands for   f"[LLM 调用出错：{repr(e)}]"
LLMErrorNotice(e) == <<"[", "L", "L", "M", "!">> \o e \o <<"]">>

\* what the service may answer to the n-th request it receives: a text that
\* names n, every second one followed by a word that occurs in documents
ServiceTexts(n) ==
    {<<"r">> \o Digits(n) \o (IF n % 2 = 0 THEN <<" ", "a">> ELSE <<>>)}

\* the outcomes of client.chat.completions.create for the n-th request
ServiceOutcomes(n) ==
    {[ok |-> TRUE, text |-> x] : x \in ServiceTexts(n)}
    \cup {[ok |-> FALSE, text |-> e] : e \in ServiceErrors}

\* call_llm returning the bare exception text, without the notice around it
call_llm_bare(outcome) == outcome.text

\* call_llm: the content on success, the notice when the call raised
call_llm(outcome) ==
    IF outcome.ok THEN outcome.text ELSE LLMErrorNotice(outcome.text)

\* ---------------------------------------------------------------- Agent.act

\* a JSON value that is not a str (a truthy number), as `knowledge` may be
JsonNumber == <<"#7">>

IsStr(v) == v # JsonNumber

\* "<" name "|" short_name "|" role "|" preferences "|" knowledge ">" stands for
\* the f-string of _build_system_prompt; str(7) is written "7"
PyStr(v) == IF IsStr(v) THEN v ELSE <<"7">>

_build_system_prompt(config) ==
    <<"<">> \o config.name \o <<"|">> \o config.short_name \o <<"|">>
    \o config.role_description \o <<"|">> \o config.strategic_preferences
    \o <<"|">> \o PyStr(config.knowledge) \o <<">">>

\* one snippet more than the call asks for
RetrieveTopKWider == 3 + 1

\* top_k of the call in _retrieve_for_round
RetrieveTopK == 3

\* "\n\n------\n\n" is written newline "-" newline
DocSeparator == <<"\n", "-", "\n">>

\* "[K]" newline   stands for   "【以下是与你方相关的检索到的背景材料片段...：】\n"
KbHeader == <<"[", "K", "]", "\n">>

top_docs(agent, gc) ==
    IF agent.docs = <<>> THEN <<>>
    ELSE simple_keyword_retrieval(agent.docs, gc, RetrieveTopK)

\* `t in d` and str.join raise TypeError on a document that is not a str
RetrieveRaises(agent, gc) ==
    /\ agent.docs # <<>>
    /\ ~RetrievalGuard(agent.docs, gc)
    /\ IF QTokens(gc) # {}
       THEN \E i \in 1..Len(agent.docs) : ~IsStr(agent.docs[i])
       ELSE \E i \in 1..Len(top_docs(agent, gc)) : ~IsStr(top_docs(agent, gc)[i])

_retrieve_for_round(agent, gc) ==
    IF top_docs(agent, gc) = <<>> THEN <<>>
    ELSE KbHeader \o Join(DocSeparator, top_docs(agent, gc))

\* "[C]" newline gc newline newline (kb newline newline) "?"   stands for the
\* user_content of lines 96-102
UserContent(agent, gc) ==
    LET kb_text == _retrieve_for_round(agent, gc)
    IN <<"[", "C", "]", "\n">> \o gc \o <<"\n", "\n">>
       \o (IF kb_text # <<>> THEN kb_text \o <<"\n", "\n">> ELSE <<>>)
       \o <<"?">>

\* the history left out of the list: system block and request block only
ActMessagesNoHistory(agent, gc) ==
    <<[role |-> "system", content |-> _build_system_prompt(agent.config)],
      [role |-> "user", content |-> UserContent(agent, gc)]>>

\* the list handed to call_llm: lines 84-104
ActMessages(agent, gc) ==
    <<[role |-> "system", content |-> _build_system_prompt(agent.config)]>>
    \o agent.history
    \o <<[role |-> "user", content |-> UserContent(agent, gc)]>>

\* history replaced by the new entry instead of extended
HistoryReplace(history, reply) == <<[role |-> "assistant", content |-> reply]>>

\* self.history.append({"role": "assistant", "content": reply})
HistoryAppend(history, reply) ==
    Append(history, [role |-> "assistant", content |-> reply])

\* ------------------------------------------- simulate_stream / simulate_once

\* default of data.get("turns", 3)
DefaultTurns == 3

Scenario(data) == Strip(Get(data, "scenario", <<>>))

Turns(data) == Get(data, "turns", DefaultTurns)

\* "S:" stands for "场景描述：", "S:none" for "场景描述：无（前端未提供）"
InitialContext(scenario) ==
    IF scenario # <<>> THEN <<"S", ":">> \o scenario
    ELSE <<"S", ":", "n", "o", "n", "e">>

\* turn_idx without the + 1
TurnIdxZeroBased(tt) == tt

\* turn_idx = t + 1
TurnIdx(tt) == tt + 1

\* msg of lines 67-71
MakeMsg(turn_idx, agent, reply) ==
    [turn |-> turn_idx, speaker |-> agent.config.name, content |-> reply]

\* newline newline "[#" turn "r " name " s]: " reply   stands for
\* f"\n\n[第{turn_idx}轮 {agent.config.name} 发言]: {reply}"
TurnEntry(turn_idx, name, reply) ==
    <<"\n", "\n", "[", "#">> \o Digits(turn_idx) \o <<"r", " ">> \o name
    \o <<" ", "s", "]", ":", " ">> \o reply

\* `=` for `+=`: the context becomes the last entry
ContextReplace(gc, turn_idx, name, reply) == TurnEntry(turn_idx, name, reply)

\* the update left out: the context stays as it was
ContextKeep(gc, turn_idx, name, reply) == gc

\* global_context += ...
ContextAppend(gc, turn_idx, name, reply) == gc \o TurnEntry(turn_idx, name, reply)

MessageChunk(msg) == [type |-> "message", data |-> msg]

DoneChunk(log) == [type |-> "done", data |-> [total_messages |-> Len(log)]]

\* repr(e) of the TypeError a non-str document raises
TypeErrorRepr == <<"T", "E">>

ErrorChunk(e) == [type |-> "error", data |-> e]

NoResponse == [status |-> 0]

\* jsonify({"error": "No valid agents provided."}), 400
BadRequest == [status |-> 400, error |-> "No valid agents provided."]

\* jsonify({"messages": messages_log})
OkResponse(log) == [status |-> 200, messages |-> log]

\* the streamed Response whose body is the generator
StreamResponse == [status |-> 200, body |-> "generate()"]

\* Flask's answer to an exception that leaves a view function
ServerError == [status |-> 500]

\* the inner loop is on its last agent
LastAgent(i, n) == i >= n

\* loop variables after the body ran for agent i of round tt
NextT(tt, i, n) == IF LastAgent(i, n) THEN tt + 1 ELSE tt

NextIdx(i, n) == IF LastAgent(i, n) THEN 1 ELSE i + 1

\* a loop that also runs for t = turns
InRangeInclusive(tt, turns) == tt <= turns

\* `for t in range(turns)` has another value
InRange(tt, turns) == tt < turns

\* simulate_once numbers its rounds from 0
OnceTurnIdxZeroBased(tt) == tt

\* simulate_once has its own copy of the loop: turn_idx = t + 1 (line 116)
OnceTurnIdx(tt) == tt + 1

\* the round number in the loop of the given route
LoopTurnIdx(route, tt) == IF route = "stream" THEN TurnIdx(tt) ELSE OnceTurnIdx(tt)

\* lines 46-54 / 103-113: parse the body, build the agents, reject when none;
\* simulate_once goes on to initialise its locals, simulate_stream returns the
\* Response around a generator that has not started
HandleRequest ==
    /\ pc = "received"
    /\ agents' = build_agents_from_request(Get(request.data, "agents", <<>>), fs)
    /\ fs_log' = fs_log \o BuildWalks(Get(request.data, "agents", <<>>), fs)
    /\ IF agents' = <<>>
       THEN /\ pc' = "rejected"
            /\ response' = BadRequest
            /\ UNCHANGED <<global_context, messages_log>>
       ELSE IF request.route = "stream"
       THEN /\ pc' = "created"
            /\ response' = StreamResponse
            /\ UNCHANGED <<global_context, messages_log>>
       ELSE /\ pc' = "loop"
            /\ global_context' = InitialContext(Scenario(request.data))
            /\ messages_log' = <<>>
            /\ UNCHANGED response
    /\ UNCHANGED <<request, t, idx, out, llm_inflight, llm_calls, llm_outcomes, fs,
                   probe, runs>>

\* the consumer's first next(): lines 57-59 of generate()
GeneratorStart ==
    /\ pc = "created"
    /\ pc' = "loop"
    /\ global_context' = InitialContext(Scenario(request.data))
    /\ messages_log' = <<>>
    /\ UNCHANGED <<request, agents, t, idx, out, response, llm_inflight,
                   llm_calls, llm_outcomes, fs, fs_log, probe, runs>>

\* the handler inside the loop instead of around it: after the error chunk the
\* loop goes on and calls the same agent again
ActCallRetries ==
    /\ pc = "loop"
    /\ InRange(t, Turns(request.data))
    /\ IF RetrieveRaises(agents[idx], global_context)
       THEN /\ pc' = "loop"
            /\ IF request.route = "stream"
               THEN out' = Append(out, ErrorChunk(TypeErrorRepr))
                    /\ UNCHANGED response
               ELSE response' = ServerError /\ UNCHANGED out
            /\ UNCHANGED <<llm_inflight, llm_calls>>
       ELSE /\ pc' = "llm"
            /\ llm_inflight' =
                   Append(llm_inflight, ActMessages(agents[idx], global_context))
            /\ llm_calls' = llm_calls + 1
            /\ UNCHANGED <<out, response>>
    /\ UNCHANGED <<request, agents, t, idx, global_context, messages_log,
                   llm_outcomes, fs, fs_log, probe, runs>>

\* agent.act(global_context) up to the request to the service (agent.py 84-106);
\* a document that is not a str raises in _retrieve_for_round: generate()
\* catches it and yields the error chunk, simulate_once lets it escape
ActCall ==
    /\ pc = "loop"
    /\ InRange(t, Turns(request.data))
    /\ IF RetrieveRaises(agents[idx], global_context)
       THEN /\ pc' = "failed"
            /\ IF request.route = "stream"
               THEN out' = Append(out, ErrorChunk(TypeErrorRepr))
                    /\ UNCHANGED response
               ELSE response' = ServerError /\ UNCHANGED out
            /\ UNCHANGED <<llm_inflight, llm_calls>>
       ELSE /\ pc' = "llm"
            /\ llm_inflight' =
                   Append(llm_inflight, ActMessages(agents[idx], global_context))
            /\ llm_calls' = llm_calls + 1
            /\ UNCHANGED <<out, response>>
    /\ UNCHANGED <<request, agents, t, idx, global_context, messages_log,
                   llm_outcomes, fs, fs_log, probe, runs>>

\* the records collected instead of yielded: the loop goes on to the next act
\* call with nothing handed to the consumer
LLMRespondBatched ==
    /\ pc = "llm"
    /\ llm_inflight # <<>>
    /\ \E outcome \in ServiceOutcomes(llm_calls) :
          LET reply == call_llm(outcome)
              agent == agents[idx]
              turn_idx == LoopTurnIdx(request.route, t)
              msg == MakeMsg(turn_idx, agent, reply)
          IN /\ llm_inflight' = Tail(llm_inflight)
             /\ llm_outcomes' = Append(llm_outcomes, outcome)
             /\ agents' = [agents EXCEPT
                    ![idx].history = HistoryAppend(agent.history, reply)]
             /\ messages_log' = Append(messages_log, msg)
             /\ global_context' =
                    ContextAppend(global_context, turn_idx, agent.config.name, reply)
             /\ IF request.route = "stream"
                THEN /\ pc' = "loop"
                     /\ t' = NextT(t, idx, Len(agents))
                     /\ idx' = NextIdx(idx, Len(agents))
                     /\ UNCHANGED out
                ELSE /\ pc' = "loop"
                     /\ t' = NextT(t, idx, Len(agents))
                     /\ idx' = NextIdx(idx, Len(agents))
                     /\ UNCHANGED out
    /\ UNCHANGED <<request, response, llm_calls, fs, fs_log, probe, runs>>

\* the service answers or raises; call_llm returns; act appends to the history
\* and returns (agent.py 106-109); the loop body logs and appends to the context
\* (app.py 67-75 / 119-125); generate() then yields the chunk, simulate_once
\* moves on to the next agent
LLMRespond ==
    /\ pc = "llm"
    /\ llm_inflight # <<>>
    /\ \E outcome \in ServiceOutcomes(llm_calls) :
          LET reply == call_llm(outcome)
              agent == agents[idx]
              turn_idx == LoopTurnIdx(request.route, t)
              msg == MakeMsg(turn_idx, agent, reply)
          IN /\ llm_inflight' = Tail(llm_inflight)
             /\ llm_outcomes' = Append(llm_outcomes, outcome)
             /\ agents' = [agents EXCEPT
                    ![idx].history = HistoryAppend(agent.history, reply)]
             /\ messages_log' = Append(messages_log, msg)
             /\ global_context' =
                    ContextAppend(global_context, turn_idx, agent.config.name, reply)
             /\ IF request.route = "stream"
                THEN /\ out' = Append(out, MessageChunk(msg))
                     /\ pc' = "yielded"
                     /\ UNCHANGED <<t, idx>>
                ELSE /\ pc' = "loop"
                     /\ t' = NextT(t, idx, Len(agents))
                     /\ idx' = NextIdx(idx, Len(agents))
                     /\ UNCHANGED out
    /\ UNCHANGED <<request, response, llm_calls, fs, fs_log, probe, runs>>

\* the consumer asks for the next chunk: generate() resumes after line 79
ConsumerNext ==
    /\ pc = "yielded"
    /\ pc' = "loop"
    /\ t' = NextT(t, idx, Len(agents))
    /\ idx' = NextIdx(idx, Len(agents))
    /\ UNCHANGED <<request, agents, global_context, messages_log, out, response,
                   llm_inflight, llm_calls, llm_outcomes, fs, fs_log, probe, runs>>

\* the consumer goes away: GeneratorExit is raised at the yield, which
\* `except Exception` does not catch
ConsumerClose ==
    /\ pc = "yielded"
    /\ pc' = "closed"
    /\ UNCHANGED <<request, agents, t, idx, global_context, messages_log, out,
                   response, llm_inflight, llm_calls, llm_outcomes, fs, fs_log, probe, runs>>

\* the loop left only when t equals turns: a negative turns value never ends
FinishWhenEqual ==
    /\ pc = "loop"
    /\ t = Turns(request.data)
    /\ pc' = "done"
    /\ IF request.route = "stream"
       THEN out' = Append(out, DoneChunk(messages_log)) /\ UNCHANGED response
       ELSE response' = OkResponse(messages_log) /\ UNCHANGED out
    /\ UNCHANGED <<request, agents, t, idx, global_context, messages_log,
                   llm_inflight, llm_calls, llm_outcomes, fs, fs_log, probe, runs>>

\* range(turns) is exhausted: the done chunk (lines 82-86) or the JSON body
\* (line 127)
Finish ==
    /\ pc = "loop"
    /\ ~InRange(t, Turns(request.data))
    /\ pc' = "done"
    /\ IF request.route = "stream"
       THEN out' = Append(out, DoneChunk(messages_log)) /\ UNCHANGED response
       ELSE response' = OkResponse(messages_log) /\ UNCHANGED out
    /\ UNCHANGED <<request, agents, t, idx, global_context, messages_log,
                   llm_inflight, llm_calls, llm_outcomes, fs, fs_log, probe, runs>>

\* ------------------------------------------------------------ specification

NoProbe == [op |-> "none"]

\* the knowledge folder of the simulation runs: two files that read, one that
\* does not
RunDisk ==
    [path |-> <<"k">>,
     files |-> <<[root |-> <<"k">>, fname |-> <<"n", ".", "t", "x", "t">>,
                  readable |-> TRUE, data |-> <<"a", " ", "c">>, err |-> <<>>],
                 [root |-> <<"k">>, fname |-> <<"u", ".", "m", "d">>,
                  readable |-> FALSE, data |-> <<>>, err |-> <<"d", "e", "n", "y">>],
                 [root |-> <<"k">>, fname |-> <<"v", ".", "l", "o", "g">>,
                  readable |-> TRUE, data |-> <<"r", "1">>, err |-> <<>>]>>]

\* entries of the "agents" list of a request
EntryPool ==
    {[role |-> <<"x">>],
     [name |-> <<" ">>],
     [name |-> <<" ", "A">>, role |-> <<"x">>],
     [name |-> <<"B">>, knowledge |-> <<"a", "b">>,
      knowledge_mode |-> "folder", knowledge_folder |-> <<"k">>],
     [name |-> <<"C">>, knowledge |-> JsonNumber]}

RECURSIVE SeqsUpTo(_, _)
SeqsUpTo(S, n) ==
    IF n = 0 THEN {<<>>}
    ELSE LET shorter == SeqsUpTo(S, n - 1)
         IN shorter \cup {Append(q, x) : q \in {r \in shorter : Len(r) = n - 1}, x \in S}

\* request bodies: scenario and turns given, or both keys absent
Bodies ==
    {[scenario |-> <<" ", "s", " ">>, turns |-> n, agents |-> a] :
        n \in (-1)..MaxTurns, a \in SeqsUpTo(EntryPool, MaxAgents)}
    \cup {[agents |-> a] : a \in SeqsUpTo(EntryPool, MaxAgents)}

Init ==
    /\ request \in {[route |-> r, data |-> d] : r \in {"stream", "once"}, d \in Bodies}
    /\ pc = "received"
    /\ agents = <<>>
    /\ t = 0
    /\ idx = 1
    /\ global_context = <<>>
    /\ messages_log = <<>>
    /\ out = <<>>
    /\ response = NoResponse
    /\ llm_inflight = <<>>
    /\ llm_calls = 0
    /\ llm_outcomes = <<>>
    /\ fs = RunDisk
    /\ fs_log = <<>>
    /\ probe = NoProbe
    /\ runs = <<>>

Next ==
    \/ HandleRequest
    \/ GeneratorStart
    \/ ActCall
    \/ LLMRespond
    \/ ConsumerNext
    \/ ConsumerClose
    \/ Finish

Spec == Init /\ [][Next]_vars

\* a run whose consumer keeps asking for the next chunk and never goes away
NextConsuming ==
    \/ HandleRequest
    \/ GeneratorStart
    \/ ActCall
    \/ LLMRespond
    \/ ConsumerNext
    \/ Finish

\* the step of ActCall as the control position shows it: the loop has another
\* turn and act is entered, to reach the service call or to raise
ActStarts ==
    /\ pc = "loop"
    /\ InRange(t, Turns(request.data))
    /\ pc' \in {"llm", "failed"}

\* the handler keeps running, the consumer keeps consuming, and every call to
\* the service returns
SpecConsuming ==
    /\ Init
    /\ [][NextConsuming]_vars
    /\ WF_vars(HandleRequest)
    /\ WF_vars(GeneratorStart)
    /\ WF_pc(ActStarts)
    /\ WF_vars(LLMRespond)
    /\ WF_vars(ConsumerNext)
    /\ WF_vars(Finish)

\* ------------------------------------- the functions of utils.py on their own

\* the run's variables while a function of utils.py is applied on its own
RunIdle ==
    /\ request = [route |-> "none", data |-> [agents |-> <<>>]]
    /\ pc = "off"
    /\ t = 0
    /\ idx = 1
    /\ global_context = <<>>
    /\ messages_log = <<>>
    /\ out = <<>>
    /\ response = NoResponse
    /\ llm_inflight = <<>>
    /\ llm_calls = 0
    /\ llm_outcomes = <<>>

DocPool == {<<"a">>, <<"a", "b">>, <<"b", " ", "a">>, <<"c">>}

QueryPool ==
    {<<>>, <<" ">>, <<"a">>, <<"a", " ", "b">>, <<"a", "b", " ", " ", "a">>,
     <<"d">>, <<"b", "\n", "c">>}

InitRetrieval ==
    /\ RunIdle
    /\ agents = <<>>
    /\ fs = RunDisk
    /\ fs_log = <<>>
    /\ probe \in {[op |-> "select", docs |-> d, query |-> q, top_k |-> k,
                   returned |-> FALSE, result |-> <<>>] :
                    d \in SeqsUpTo(DocPool, MaxDocs), q \in QueryPool, k \in 0..MaxTopK}
    /\ runs = <<>>

\* one call simple_keyword_retrieval(docs, query, top_k)
Select ==
    /\ probe.op = "select"
    /\ ~probe.returned
    /\ probe' = [probe EXCEPT
           !.returned = TRUE,
           !.result = simple_keyword_retrieval(probe.docs, probe.query, probe.top_k)]
    /\ UNCHANGED <<runVars>>

NextRetrieval == Select

SpecRetrieval == InitRetrieval /\ [][NextRetrieval]_vars

\* files a knowledge folder may hold: one that reads, one that does not open,
\* one that holds only whitespace, one whose extension is not recognized
FilePool ==
    {[root |-> <<"k">>, fname |-> <<"n", ".", "t", "x", "t">>,
      readable |-> TRUE, data |-> <<" ", "a", " ", "c", "\n">>, err |-> <<>>],
     [root |-> <<"k">>, fname |-> <<"u", ".", "M", "D">>,
      readable |-> FALSE, data |-> <<>>, err |-> <<"d", "e", "n", "y">>],
     [root |-> <<"k", "/", "s">>, fname |-> <<"e", ".", "l", "o", "g">>,
      readable |-> TRUE, data |-> <<" ", "\n">>, err |-> <<>>],
     [root |-> <<"k">>, fname |-> <<"p", ".", "p", "y">>,
      readable |-> TRUE, data |-> <<"x">>, err |-> <<>>]}

DiskPool == {[path |-> <<"k">>, files |-> f] : f \in SeqsUpTo(FilePool, MaxFiles)}

ConfigPool ==
    {AgentConfig([name |-> <<"A">>, knowledge |-> k, knowledge_mode |-> m,
                  knowledge_folder |-> d]) :
        k \in {<<>>, <<"a", "b">>},
        m \in {"inline", "folder", "directory"},
        d \in {<<>>, <<"k">>, <<"z">>}}

InitKnowledge ==
    /\ RunIdle
    /\ agents = <<>>
    /\ fs \in DiskPool
    /\ fs_log = <<>>
    /\ probe \in {[op |-> "knowledge", config |-> c, returned |-> FALSE,
                   result |-> <<>>] : c \in ConfigPool}
    /\ runs = <<>>

\* one call load_text_files_from_folder(config.knowledge_folder)
LoadFolder ==
    /\ probe.op = "knowledge"
    /\ ~probe.returned
    /\ agents = <<>>
    /\ probe' = [probe EXCEPT
           !.returned = TRUE,
           !.result = load_text_files_from_folder(fs, probe.config.knowledge_folder)]
    /\ fs_log' = IF Walks(fs, probe.config.knowledge_folder)
                 THEN Append(fs_log, ExpandUser(probe.config.knowledge_folder))
                 ELSE fs_log
    /\ UNCHANGED <<request, pc, agents, t, idx, global_context, messages_log, out,
                   response, llm_inflight, llm_calls, llm_outcomes, fs, runs>>

\* one construction Agent(config)
ConstructAgent ==
    /\ probe.op = "knowledge"
    /\ ~probe.returned
    /\ agents = <<>>
    /\ agents' = <<AgentInit(probe.config, fs)>>
    /\ fs_log' = fs_log \o AgentWalks(probe.config, fs)
    /\ UNCHANGED <<request, pc, t, idx, global_context, messages_log, out,
                   response, llm_inflight, llm_calls, llm_outcomes, fs, probe, runs>>

NextKnowledge == LoadFolder \/ ConstructAgent

SpecKnowledge == InitKnowledge /\ [][NextKnowledge]_vars

\* ------------------------------------------------------- runs side by side

\* Flask serves every request in an invocation of its own of the view function;
\* runs[i] holds the locals of invocation i (agents, global_context,
\* messages_log, the loop position) and what it has sent and received.  The
\* disk is the one thing the invocations share.
Runs == {1, 2}

handlerVars == <<request, pc, agents, t, idx, global_context, messages_log, out,
                 response, llm_inflight, llm_calls, llm_outcomes>>

NewRun(req) ==
    [request |-> req, pc |-> "received", agents |-> <<>>, t |-> 0, idx |-> 1,
     global_context |-> <<>>, messages_log |-> <<>>, out |-> <<>>,
     response |-> NoResponse, llm_inflight |-> <<>>, llm_calls |-> 0,
     llm_outcomes |-> <<>>]

\* a context at module level: every invocation reads that of the first
ContextOfFirst(i) == runs[1].global_context

\* global_context is a local of the invocation
ContextOf(i) == runs[i].global_context

RunHandleRequest ==
    \E i \in Runs :
       LET r == runs[i]
           built == build_agents_from_request(Get(r.request.data, "agents", <<>>), fs)
       IN /\ r.pc = "received"
          /\ fs_log' = fs_log \o BuildWalks(Get(r.request.data, "agents", <<>>), fs)
          /\ runs' = [runs EXCEPT ![i] =
                IF built = <<>>
                THEN [r EXCEPT !.agents = built, !.pc = "rejected",
                               !.response = BadRequest]
                ELSE IF r.request.route = "stream"
                THEN [r EXCEPT !.agents = built, !.pc = "created",
                               !.response = StreamResponse]
                ELSE [r EXCEPT !.agents = built, !.pc = "loop",
                               !.global_context =
                                   InitialContext(Scenario(r.request.data)),
                               !.messages_log = <<>>]]
          /\ UNCHANGED <<handlerVars, fs, probe>>

RunGeneratorStart ==
    \E i \in Runs :
       LET r == runs[i]
       IN /\ r.pc = "created"
          /\ runs' = [runs EXCEPT ![i] =
                [r EXCEPT !.pc = "loop",
                          !.global_context = InitialContext(Scenario(r.request.data)),
                          !.messages_log = <<>>]]
          /\ UNCHANGED <<handlerVars, fs, fs_log, probe>>

RunActCall ==
    \E i \in Runs :
       LET r == runs[i]
           agent == r.agents[r.idx]
       IN /\ r.pc = "loop"
          /\ InRange(r.t, Turns(r.request.data))
          /\ runs' = [runs EXCEPT ![i] =
                IF RetrieveRaises(agent, ContextOf(i))
                THEN IF r.request.route = "stream"
                     THEN [r EXCEPT !.pc = "failed",
                                    !.out = Append(@, ErrorChunk(TypeErrorRepr))]
                     ELSE [r EXCEPT !.pc = "failed", !.response = ServerError]
                ELSE [r EXCEPT !.pc = "llm",
                               !.llm_inflight =
                                   Append(@, ActMessages(agent, ContextOf(i))),
                               !.llm_calls = @ + 1]]
          /\ UNCHANGED <<handlerVars, fs, fs_log, probe>>

RunLLMRespond ==
    \E i \in Runs :
       LET r == runs[i]
       IN /\ r.pc = "llm"
          /\ r.llm_inflight # <<>>
          /\ \E outcome \in ServiceOutcomes(r.llm_calls) :
                LET reply == call_llm(outcome)
                    agent == r.agents[r.idx]
                    turn_idx == LoopTurnIdx(r.request.route, r.t)
                    msg == MakeMsg(turn_idx, agent, reply)
                    answered ==
                        [r EXCEPT
                           !.llm_inflight = Tail(@),
                           !.llm_outcomes = Append(@, outcome),
                           !.agents[r.idx].history = HistoryAppend(@, reply),
                           !.messages_log = Append(@, msg),
                           !.global_context =
                               ContextAppend(ContextOf(i), turn_idx,
                                             agent.config.name, reply)]
                IN runs' = [runs EXCEPT ![i] =
                      IF r.request.route = "stream"
                      THEN [answered EXCEPT !.out = Append(@, MessageChunk(msg)),
                                            !.pc = "yielded"]
                      ELSE [answered EXCEPT !.pc = "loop",
                                            !.t = NextT(r.t, r.idx, Len(r.agents)),
                                            !.idx = NextIdx(r.idx, Len(r.agents))]]
          /\ UNCHANGED <<handlerVars, fs, fs_log, probe>>

RunConsumerNext ==
    \E i \in Runs :
       LET r == runs[i]
       IN /\ r.pc = "yielded"
          /\ runs' = [runs EXCEPT ![i] =
                [r EXCEPT !.pc = "loop",
                          !.t = NextT(r.t, r.idx, Len(r.agents)),
                          !.idx = NextIdx(r.idx, Len(r.agents))]]
          /\ UNCHANGED <<handlerVars, fs, fs_log, probe>>

RunConsumerClose ==
    \E i \in Runs :
       /\ runs[i].pc = "yielded"
       /\ runs' = [runs EXCEPT ![i].pc = "closed"]
       /\ UNCHANGED <<handlerVars, fs, fs_log, probe>>

RunFinish ==
    \E i \in Runs :
       LET r == runs[i]
       IN /\ r.pc = "loop"
          /\ ~InRange(r.t, Turns(r.request.data))
          /\ runs' = [runs EXCEPT ![i] =
                IF r.request.route = "stream"
                THEN [r EXCEPT !.pc = "done",
                               !.out = Append(@, DoneChunk(r.messages_log))]
                ELSE [r EXCEPT !.pc = "done",
                               !.response = OkResponse(r.messages_log)]]
          /\ UNCHANGED <<handlerVars, fs, fs_log, probe>>

\* the bodies of the requests served side by side
RunBodies ==
    {[scenario |-> <<" ", "s", " ">>, turns |-> n,
      agents |-> <<[name |-> <<" ", "A">>, role |-> <<"x">>],
                   [name |-> <<"B">>, knowledge |-> <<"a", "b">>,
                    knowledge_mode |-> "folder", knowledge_folder |-> <<"k">>]>>] :
        n \in 1..MaxRunTurns}
    \cup {[turns |-> 1,
           agents |-> <<[name |-> <<"B">>, knowledge |-> <<"a", "b">>],
                        [name |-> <<"A">>]>>]}

InitSideBySide ==
    /\ RunIdle
    /\ agents = <<>>
    /\ fs = RunDisk
    /\ fs_log = <<>>
    /\ probe = NoProbe
    /\ runs \in {<<NewRun([route |-> "stream", data |-> d1]),
                   NewRun([route |-> r2, data |-> d2])>> :
                    r2 \in {"stream", "once"}, d1 \in RunBodies, d2 \in RunBodies}

NextSideBySide ==
    \/ RunHandleRequest
    \/ RunGeneratorStart
    \/ RunActCall
    \/ RunLLMRespond
    \/ RunConsumerNext
    \/ RunConsumerClose
    \/ RunFinish

SpecSideBySide == InitSideBySide /\ [][NextSideBySide]_vars

\* ------------------------------------------------------------------ claims

\* the first k elements of s, all of s when it has fewer
FirstK(s, k) == [i \in 1..(IF k < Len(s) THEN k ELSE Len(s)) |-> s[i]]

\* number of distinct whitespace-separated tokens of query occurring in d
MatchCount(d, query) ==
    Cardinality({tk \in SplitSet(query) : IsSubstring(tk, d)})

ZeroMatch(docs, query) == \A i \in 1..Len(docs) : MatchCount(docs[i], query) = 0

\* C7 as claimed: whenever no document scores above zero, the empty query
\* included, select returns the first top_k documents unchanged and in order,
\* and the empty list for an empty document list.
C7_FallbackAnyQuery ==
    (probe.op = "select" /\ probe.returned /\ ZeroMatch(probe.docs, probe.query))
        => probe.result = FirstK(probe.docs, probe.top_k)

\* C7 amended: for a query that is not the empty string (a whitespace-only
\* query included) and matches no document, select returns the first top_k
\* documents unchanged and in order; for the empty query string, or an empty
\* document list, it returns the empty list.
C7_Fallback ==
    (probe.op = "select" /\ probe.returned)
        => /\ (probe.query # <<>> /\ ZeroMatch(probe.docs, probe.query))
                => probe.result = FirstK(probe.docs, probe.top_k)
           /\ (probe.query = <<>> \/ probe.docs = <<>>) => probe.result = <<>>

C7_Witness ==
    /\ probe.op = "select" /\ probe.returned
    /\ probe.query = <<"d">>
    /\ ZeroMatch(probe.docs, probe.query)
    /\ Len(probe.docs) = 3 /\ probe.top_k = 2
    /\ probe.result = <<probe.docs[1], probe.docs[2]>>

\* f picks the returned documents out of docs: increasing score first, then
\* original position
RankedPick(f, docs, query, result) ==
    /\ \A i \in 1..Len(result) :
          /\ result[i] = docs[f[i]]
          /\ MatchCount(docs[f[i]], query) > 0
    /\ \A i, j \in 1..Len(result) :
          i < j => \/ MatchCount(docs[f[i]], query) > MatchCount(docs[f[j]], query)
                   \/ /\ MatchCount(docs[f[i]], query) = MatchCount(docs[f[j]], query)
                      /\ f[i] < f[j]
    /\ \A m \in 1..Len(docs) :
          (m \notin {f[i] : i \in 1..Len(result)} /\ MatchCount(docs[m], query) > 0)
              => /\ Len(result) = Len(f)
                 /\ \A i \in 1..Len(result) :
                       \/ MatchCount(docs[m], query) < MatchCount(docs[f[i]], query)
                       \/ /\ MatchCount(docs[m], query) = MatchCount(docs[f[i]], query)
                          /\ f[i] < m

\* C8: for a nonempty document list and a query with a token occurring in some
\* document, select returns at most top_k documents, each containing a query
\* token, in non-increasing order of the number of distinct query tokens they
\* contain, equal scores in original order, and no omitted document scores
\* higher than a returned one (an omitted one is left out only when top_k
\* documents are returned).
C8_Ranked ==
    (/\ probe.op = "select" /\ probe.returned
     /\ probe.docs # <<>>
     /\ ~ZeroMatch(probe.docs, probe.query))
        => /\ Len(probe.result) <= probe.top_k
           /\ \E f \in [1..probe.top_k -> 1..Len(probe.docs)] :
                 /\ Len(probe.result) <= Len(f)
                 /\ RankedPick(f, probe.docs, probe.query, probe.result)

C8_Witness ==
    /\ probe.op = "select" /\ probe.returned
    /\ probe.docs = <<<<"a">>, <<"a", "b">>, <<"b", " ", "a">>>>
    /\ probe.query = <<"a", " ", "b">>
    /\ probe.top_k = 2
    /\ probe.result = <<<<"a", "b">>, <<"b", " ", "a">>>>

\* the files of the walked folder whose extension is one of .txt, .md, .log,
\* any case
RecognizedFiles(files) ==
    SelectSeq(files, LAMBDA f : Lower(SplitExt(f.fname)) \in exts)

IsBlank(text) == \A i \in 1..Len(text) : text[i] \in Whitespace

StartsWith(s, pre) == Len(s) >= Len(pre) /\ SubSeq(s, 1, Len(pre)) = pre

\* d is the document of a file that read: its stripped content, tagged with
\* the file name
IsContentDoc(d, f) ==
    /\ StartsWith(d, <<"[", "F", ":">> \o f.fname)
    /\ SubSeq(d, Len(d) - Len(Strip(f.data)) + 1, Len(d)) = Strip(f.data)

\* d is the visible failure notice of a file that did not read
IsFailureDoc(d, f) ==
    /\ StartsWith(d, <<"[", "X", ":">>)
    /\ IsSubstring(f.fname, d)
    /\ IsSubstring(f.err, d)

ScanReturned ==
    /\ probe.op = "knowledge" /\ probe.returned
    /\ probe.config.knowledge_folder = fs.path

\* C9 as claimed: the scan yields exactly one Document per file with a
\* recognized extension, whatever the file's state, an empty file included.
C9_OneDocumentPerFile ==
    ScanReturned => Len(probe.result) = Len(RecognizedFiles(fs.files))

\* C9 amended: the scan yields, in walk order, exactly one Document per file
\* with a recognized extension that either fails to open or read (a visible
\* failure notice) or reads with content that is not empty after stripping
\* whitespace (that content tagged with the file name); a recognized file that
\* is empty or whitespace-only yields no Document, and no file's failure or
\* emptiness drops a Document of another file.
C9_ScanDocuments ==
    ScanReturned =>
        LET yielding == SelectSeq(RecognizedFiles(fs.files),
                                  LAMBDA f : ~f.readable \/ ~IsBlank(f.data))
        IN /\ Len(probe.result) = Len(yielding)
           /\ \A i \in 1..Len(yielding) :
                 IF yielding[i].readable
                 THEN IsContentDoc(probe.result[i], yielding[i])
                 ELSE IsFailureDoc(probe.result[i], yielding[i])

C9_Witness ==
    /\ ScanReturned
    /\ Len(fs.files) = 2
    /\ ~fs.files[1].readable
    /\ fs.files[2].readable /\ fs.files[2].fname = <<"n", ".", "t", "x", "t">>
    /\ Len(probe.result) = 2

InlineDocs(config) == IF config.knowledge # <<>> THEN <<config.knowledge>> ELSE <<>>

Constructed == probe.op = "knowledge" /\ Len(agents) = 1

\* C10 as claimed: with knowledge mode `directory` and a non-empty directory
\* path the document list is the inline Document (if any) followed by the
\* Documents scanned from that directory.
C10_DirectoryModeScans ==
    (/\ Constructed
     /\ probe.config.knowledge_mode = "directory"
     /\ probe.config.knowledge_folder # <<>>)
        => agents[1].docs = InlineDocs(probe.config)
               \o load_text_files_from_folder(fs, probe.config.knowledge_folder)

\* C10 amended: the knowledge mode that makes an Agent scan is `folder`: with
\* mode `folder` and a non-empty folder path the document list is the inline
\* Document (if the inline text is non-empty) followed by the Documents scanned
\* from that folder; with any other mode, `inline` and `directory` included,
\* it holds only the inline Document (or is empty) and no folder is scanned.
C10_FolderModeScans ==
    Constructed =>
        IF probe.config.knowledge_mode = "folder" /\ probe.config.knowledge_folder # <<>>
        THEN /\ agents[1].docs = InlineDocs(probe.config)
                   \o load_text_files_from_folder(fs, probe.config.knowledge_folder)
             /\ (probe.config.knowledge_folder = fs.path) => fs_log = <<fs.path>>
        ELSE /\ agents[1].docs = InlineDocs(probe.config)
             /\ fs_log = <<>>

C10_Witness ==
    /\ Constructed
    /\ probe.config.knowledge_mode = "folder"
    /\ probe.config.knowledge # <<>>
    /\ Len(agents[1].docs) = 3
    /\ agents[1].docs[1] = probe.config.knowledge
    /\ fs_log = <<fs.path>>

\* ---- claims about a simulation run

AgentsData == Get(request.data, "agents", <<>>)

\* the entry has a name that is not empty once whitespace is trimmed
HasName(a) == "name" \in DOMAIN a /\ ~IsBlank(a.name)

\* the trimmed names of the entries that have one, in configuration order
ValidNames ==
    LET named == SelectSeq(AgentsData, HasName)
    IN [i \in 1..Len(named) |-> Strip(named[i].name)]

NumTurns == IF "turns" \in DOMAIN request.data THEN request.data.turns ELSE 3

IsPrefix(a, b) == Len(a) <= Len(b) /\ SubSeq(b, 1, Len(a)) = a

\* the message records among the chunks handed to the consumer, in order
Emitted ==
    LET chunks == SelectSeq(out, LAMBDA c : c.type = "message")
    IN [i \in 1..Len(chunks) |-> chunks[i].data]

\* C1: a streaming run with T >= 1 turns and n >= 1 valid agents that ends
\* without an internal error has handed over exactly T*n message records, the
\* k-th (0-based) with round (k div n)+1 and the name of valid agent (k mod n),
\* followed by exactly one done marker with total_messages = T*n; and at every
\* moment the chunks handed over so far are a prefix of that sequence.
C1_StreamTranscript ==
    (request.route = "stream" /\ NumTurns >= 1 /\ Len(ValidNames) >= 1) =>
        LET n == Len(ValidNames)
            total == NumTurns * n
        IN /\ \A k \in 1..Len(out) :
                 /\ out[k].type = "message" =>
                       /\ k <= total
                       /\ out[k].data.turn = ((k - 1) \div n) + 1
                       /\ out[k].data.speaker = ValidNames[((k - 1) % n) + 1]
                 /\ out[k].type = "done" =>
                       /\ k = total + 1
                       /\ out[k].data.total_messages = total
                 /\ k < Len(out) => out[k].type = "message"
           /\ pc = "done" => (Len(out) = total + 1 /\ out[total + 1].type = "done")

C1_Witness ==
    /\ request.route = "stream" /\ pc = "done"
    /\ NumTurns = 2 /\ Len(ValidNames) = 2
    /\ Len(out) = 5
    /\ out[5] = [type |-> "done", data |-> [total_messages |-> 4]]

\* the scenario line followed by one formatted entry per record of log
TranscriptContext(log) ==
    InitialContext(Scenario(request.data))
    \o Concat([i \in 1..Len(log) |->
                  TurnEntry(log[i].turn, log[i].speaker, log[i].content)])

ContextLive == pc \in {"loop", "llm", "yielded", "done", "failed", "closed"}

\* C2: in every state of a run GlobalContext is the scenario line followed by
\* one formatted entry (round, speaker, reply) per TurnRecord logged (and, when
\* streaming, emitted) so far, in order; and every step leaves the old context
\* a prefix of the new one.
C2_ContextIsTranscript ==
    /\ [](ContextLive =>
             /\ global_context = TranscriptContext(messages_log)
             /\ request.route = "stream" => Emitted = messages_log)
    /\ [][IsPrefix(global_context, global_context')]_vars

C2_Witness ==
    /\ pc = "yielded"
    /\ Len(messages_log) = 3
    /\ global_context = TranscriptContext(messages_log)
    /\ Len(global_context) > Len(InitialContext(Scenario(request.data))) + 3 * 10

\* the request block of the request the service is working on
InflightUser == llm_inflight[1][Len(llm_inflight[1])]

\* C3: at most one text-generation request is in flight; the k-th request is
\* sent only when the k-1 earlier replies have been returned and appended to
\* GlobalContext, and its request block carries the context holding exactly
\* those k-1 replies, those of the same round included.
C3_Sequential ==
    /\ Len(llm_inflight) <= 1
    /\ (pc = "llm") = (Len(llm_inflight) = 1)
    /\ pc = "llm" =>
          /\ llm_calls = Len(messages_log) + 1
          /\ Len(llm_outcomes) = Len(messages_log)
          /\ global_context = TranscriptContext(messages_log)
          /\ InflightUser.role = "user"
          /\ StartsWith(InflightUser.content,
                        <<"[", "C", "]", "\n">> \o TranscriptContext(messages_log)
                        \o <<"\n", "\n">>)
          /\ \A j \in 1..Len(messages_log) :
                IsSubstring(messages_log[j].content, InflightUser.content)
          /\ \A j \in (llm_calls)..(llm_calls + 1) :
                \A x \in ServiceTexts(j) : ~IsSubstring(x, InflightUser.content)
    /\ pc # "llm" => llm_calls = Len(messages_log)

C3_Witness ==
    /\ pc = "llm"
    /\ llm_calls = 4
    /\ Len(agents) = 2 /\ idx = 2 /\ t = 1
    /\ IsSubstring(messages_log[3].content, InflightUser.content)

\* C4: when no entry of the agent list has a non-empty name, either operation
\* answers with the InvalidInput error, emits no record and no done marker, and
\* never calls the text-generation service.
C4_NoValidAgents ==
    (Len(ValidNames) = 0 /\ pc # "received") =>
        /\ pc = "rejected"
        /\ response = BadRequest
        /\ out = <<>>
        /\ messages_log = <<>>
        /\ llm_calls = 0 /\ llm_inflight = <<>>

C4_Witness ==
    /\ pc = "rejected" /\ response.status = 400
    /\ request.route = "stream"
    /\ Len(AgentsData) = 2
    /\ "name" \notin DOMAIN AgentsData[1]
    /\ "name" \in DOMAIN AgentsData[2]

\* c is the visible notice of a failed service call
IsFailureNotice(c, outcome) ==
    /\ StartsWith(c, <<"[", "L", "L", "M", "!">>)
    /\ IsSubstring(outcome.text, c)

\* every document of every agent is text, so no turn can raise
TextOnly ==
    \A i \in 1..Len(AgentsData) :
        HasName(AgentsData[i]) =>
            ("knowledge" \in DOMAIN AgentsData[i] => AgentsData[i].knowledge # JsonNumber)

\* C5: whatever calls the service fails, every answered call, failed ones
\* included, gives a TurnRecord, a failed call's record carrying a visible
\* failure notice; the failure raises nothing: no error marker and no error
\* response comes of it, and the run ends with T*n records and the done marker.
C5_ServiceFailuresRecovered ==
    /\ Len(llm_outcomes) = Len(messages_log)
    /\ \A j \in 1..Len(llm_outcomes) :
          ~llm_outcomes[j].ok => IsFailureNotice(messages_log[j].content, llm_outcomes[j])
    /\ TextOnly =>
          /\ pc # "failed"
          /\ response # ServerError
          /\ \A k \in 1..Len(out) : out[k].type # "error"
          /\ pc = "done" =>
                /\ Len(messages_log) = (IF NumTurns > 0 THEN NumTurns ELSE 0) * Len(ValidNames)
                /\ request.route = "stream" =>
                      out = [k \in 1..Len(messages_log) |->
                                [type |-> "message", data |-> messages_log[k]]]
                            \o <<[type |-> "done",
                                  data |-> [total_messages |-> Len(messages_log)]]>>

C5_Witness ==
    /\ pc = "done" /\ request.route = "stream"
    /\ Len(llm_outcomes) = 4
    /\ \A j \in 1..4 : ~llm_outcomes[j].ok
    /\ Len(out) = 5 /\ out[5].type = "done"

\* the turns (positions of messages_log) that agent i of n has completed
TurnsOf(i, n) == {j \in 1..Len(messages_log) : ((j - 1) % n) + 1 = i}

\* C6: each agent's history holds one self-authored entry per act call it has
\* completed, the m-th being the reply of its m-th turn; a step changes at most
\* the history of the agent whose act call completes, by appending one entry.
C6_Histories ==
    /\ [](pc \notin {"off", "received"} =>
             \A i \in 1..Len(agents) :
                /\ Len(agents[i].history) = Cardinality(TurnsOf(i, Len(agents)))
                /\ \A m \in 1..Len(agents[i].history) :
                      agents[i].history[m] =
                          [role |-> "assistant",
                           content |-> messages_log[(m - 1) * Len(agents) + i].content])
    /\ [][pc \notin {"off", "received"} =>
             \A i \in 1..Len(agents) :
                \/ agents'[i].history = agents[i].history
                \/ /\ pc = "llm" /\ i = idx
                   /\ Len(agents'[i].history) = Len(agents[i].history) + 1
                   /\ IsPrefix(agents[i].history, agents'[i].history)]_vars

C6_Witness ==
    /\ pc = "done"
    /\ Len(agents) = 2
    /\ Len(agents[1].history) = 2 /\ Len(agents[2].history) = 2
    /\ agents[1].history[2].content # agents[2].history[2].content

\* ------------------------------------------------- internal error in a stream

Streaming == request.route = "stream"

\* the chunks of the given type among those handed to the consumer
ChunksOf(type) == {i \in 1..Len(out) : out[i].type = type}

\* C11: when an internal error is raised during the k-th turn of a streaming
\* run, the chunks handed over are exactly the k-1 message records produced so
\* far followed by one error marker that carries the error's description; there
\* is no done marker, and after the error marker nothing more is emitted and no
\* further act or service call is made.
C11_ErrorEndsStream ==
    /\ [](Streaming =>
            /\ pc = "failed" <=> ChunksOf("error") # {}
            /\ pc = "failed" =>
                  /\ Len(out) = Len(messages_log) + 1
                  /\ \A k \in 1..Len(messages_log) :
                        out[k] = [type |-> "message", data |-> messages_log[k]]
                  /\ out[Len(out)] = [type |-> "error", data |-> TypeErrorRepr]
                  /\ ChunksOf("done") = {}
                  /\ llm_inflight = <<>>
                  /\ llm_calls = Len(messages_log))
    /\ [][(Streaming /\ pc = "failed") =>
            /\ pc' = "failed"
            /\ out' = out
            /\ llm_calls' = llm_calls
            /\ llm_inflight' = llm_inflight
            /\ agents' = agents
            /\ global_context' = global_context]_vars

\* a stream that failed in its second turn, after one message record
C11_Witness ==
    /\ Streaming
    /\ pc = "failed"
    /\ Len(out) = 2
    /\ out[1].type = "message"
    /\ out[2].type = "error"

\* ------------------------------------------------------- runs side by side

\* the trimmed names of the entries of a request that have one, in order
NamesOf(req) ==
    LET named == SelectSeq(Get(req.data, "agents", <<>>), HasName)
    IN [i \in 1..Len(named) |-> Strip(named[i].name)]

\* the transcript of a request served alone whose service calls end as the
\* given outcomes: round-robin rounds and speakers, one record per outcome
SoloLog(req, outcomes) ==
    LET names == NamesOf(req)
        n == Len(names)
    IN [k \in 1..Len(outcomes) |->
           [turn |-> ((k - 1) \div n) + 1,
            speaker |-> names[((k - 1) % n) + 1],
            content |-> call_llm(outcomes[k])]]

\* the context of a request served alone after the given records
SoloContext(req, log) ==
    InitialContext(Scenario(req.data))
    \o Concat([k \in 1..Len(log) |->
                  TurnEntry(log[k].turn, log[k].speaker, log[k].content)])

\* the replies of the agent at position j among the records, in order
RepliesOf(log, j, n) ==
    LET own == SelectSeq([k \in 1..Len(log) |-> [k |-> k, m |-> log[k]]],
                         LAMBDA e : ((e.k - 1) % n) + 1 = j)
    IN [m \in 1..Len(own) |-> [role |-> "assistant", content |-> own[m].m.content]]

MessagesIn(chunks) ==
    LET sel == SelectSeq(chunks, LAMBDA c : c.type = "message")
    IN [k \in 1..Len(sel) |-> sel[k].data]

\* C12: when runs execute with their steps interleaved, each run has its own
\* agents, histories and context: its transcript, context, histories and the
\* request it has in flight are those of the same request served alone with
\* the same service responses, and a step of one run changes nothing of another.
C12_RunsIsolated ==
    /\ [](\A i \in DOMAIN runs :
             LET r == runs[i]
                 n == Len(NamesOf(r.request))
                 alone == SoloContext(r.request, r.messages_log)
             IN r.pc # "received" =>
                  /\ Len(r.agents) = n
                  /\ r.messages_log = SoloLog(r.request, r.llm_outcomes)
                  /\ r.pc \notin {"created", "rejected"} => r.global_context = alone
                  /\ \A j \in 1..n :
                        r.agents[j].history = RepliesOf(r.messages_log, j, n)
                  /\ r.request.route = "stream" =>
                        MessagesIn(r.out) = r.messages_log
                  /\ r.pc = "llm" =>
                        r.llm_inflight = <<ActMessages(r.agents[r.idx], alone)>>)
    /\ [][\A i, j \in DOMAIN runs :
             (i # j /\ runs'[i] # runs[i]) => runs'[j] = runs[j]]_vars

\* two runs with different agent orders, each one record into its transcript
\* and each with a request in flight at the same moment
C12_Witness ==
    /\ DOMAIN runs = {1, 2}
    /\ runs[1].pc = "llm"
    /\ runs[2].pc = "llm"
    /\ Len(runs[1].messages_log) = 1
    /\ Len(runs[2].messages_log) = 1
    /\ runs[1].messages_log[1].speaker # runs[2].messages_log[1].speaker
    /\ runs[1].llm_outcomes # runs[2].llm_outcomes

\* ------------------------------------------------------- one act call

\* the request of the act call that is waiting for the service
Sent == llm_inflight[1]

\* C13: on an agent's (K+1)-th act call the list sent to the service is the
\* system block, the agent's K earlier replies in chronological order and this
\* round's request block (K+2 entries), the request block embedding the context
\* passed to act; the reply is appended to the agent's history when the call
\* returns and before the loop goes on, and act leaves the context as passed.
C13_ActRequest ==
    /\ [](pc = "llm" =>
            LET n == Len(agents)
                K == Cardinality(TurnsOf(idx, n))
            IN /\ Len(Sent) = K + 2
               /\ Sent[1].role = "system"
               /\ IsSubstring(agents[idx].config.name, Sent[1].content)
               /\ \A m \in 1..K :
                     Sent[m + 1] =
                         [role |-> "assistant",
                          content |-> messages_log[(m - 1) * n + idx].content]
               /\ Sent[K + 2].role = "user"
               /\ StartsWith(Sent[K + 2].content,
                             <<"[", "C", "]", "\n">> \o global_context
                             \o <<"\n", "\n">>)
               /\ Len(agents[idx].history) = K)
    /\ [][pc = "llm" =>
            /\ pc' # "llm"
            /\ agents'[idx].history =
                   Append(agents[idx].history,
                          [role |-> "assistant",
                           content |-> messages_log'[Len(messages_log')].content])
            /\ IsPrefix(global_context, global_context')]_vars
    /\ [][pc = "loop" => global_context' = global_context]_vars

\* the second act call of an agent: its one earlier reply sits between the
\* system block and the request block
C13_Witness ==
    /\ pc = "llm"
    /\ Len(agents) = 2
    /\ idx = 2
    /\ Len(agents[idx].history) = 1
    /\ Len(Sent) = 3
    /\ Sent[2].content = messages_log[2].content

\* ------------------------------------------------------- streaming is lazy

\* C14: in a streaming run every record is handed to the consumer before the
\* next act call begins, so the service has received at most one request more
\* than the records handed over; a consumer that stops after k records has
\* caused k service calls, nothing runs afterwards, and chunks handed over are
\* never taken back.
C14_LazyStream ==
    /\ [](Streaming =>
            /\ llm_calls <= Len(Emitted) + 1
            /\ pc = "llm" => Len(Emitted) = llm_calls - 1
            /\ pc = "closed" =>
                  /\ llm_calls = Len(Emitted)
                  /\ Len(out) = Len(Emitted)
                  /\ Emitted = messages_log
                  /\ llm_inflight = <<>>)
    /\ [][Streaming => IsPrefix(out, out')]_vars
    /\ [][pc = "closed" =>
            /\ pc' = "closed"
            /\ out' = out
            /\ llm_calls' = llm_calls
            /\ llm_inflight' = llm_inflight]_vars

\* a consumer that stopped after the first of four records
C14_Witness ==
    /\ Streaming
    /\ pc = "closed"
    /\ Len(out) = 1
    /\ llm_calls = 1
    /\ NumTurns * Len(agents) = 4

\* ------------------------------------------------------- building the agents

\* the entries of the request that have a name, in configuration order
Named == SelectSeq(AgentsData, HasName)

\* C15: build_agents_from_request returns one Agent per entry whose name is
\* present and not empty once trimmed, in the order of the entries, each with
\* the trimmed name and the other fields of its entry; an entry without such a
\* name is skipped, and the operation fails on no request.
C15_OneAgentPerName ==
    /\ pc = "received" => ENABLED HandleRequest
    /\ pc \notin {"received", "off"} =>
          /\ Len(agents) = Len(Named)
          /\ \A i \in 1..Len(Named) :
                /\ agents[i].config.name = Strip(Named[i].name)
                /\ agents[i].config.short_name = Strip(Named[i].name)
                /\ agents[i].config.role_description = Get(Named[i], "role", <<>>)
                /\ agents[i].config.knowledge = Get(Named[i], "knowledge", <<>>)
                /\ agents[i].config.knowledge_mode =
                       Get(Named[i], "knowledge_mode", "inline")

\* an entry without a name in front of one whose name needs trimming
C15_Witness ==
    /\ pc = "loop"
    /\ Len(AgentsData) = 2
    /\ "name" \notin DOMAIN AgentsData[1]
    /\ AgentsData[2].name = <<" ", "A">>
    /\ Len(agents) = 1
    /\ agents[1].config.name = <<"A">>

\* ------------------------------------------------------- knowledge snippets

\* the request block of the act call that is waiting for the service
RequestBlock == Sent[Len(Sent)].content

\* the request block without a knowledge section
PlainBlock(gc) == <<"[", "C", "]", "\n">> \o gc \o <<"\n", "\n", "?">>

\* the request block whose knowledge section holds the given snippets
BlockWith(gc, snippets) ==
    <<"[", "C", "]", "\n">> \o gc \o <<"\n", "\n">>
    \o KbHeader \o Join(DocSeparator, snippets) \o <<"\n", "\n", "?">>

\* C16: in every act call of a run the context passed is not empty, and the
\* request block holds a knowledge section exactly when the acting agent has
\* documents; the section holds between one and 3 snippets, each a document
\* of that agent's own list.
C16_OwnSnippets ==
    pc = "llm" =>
       LET own == agents[idx].docs
       IN /\ global_context # <<>>
          /\ own = <<>> <=> RequestBlock = PlainBlock(global_context)
          /\ own # <<>> =>
                \E snippets \in SeqsUpTo(Range(own), 3) :
                   /\ snippets # <<>>
                   /\ RequestBlock = BlockWith(global_context, snippets)

\* an agent with four documents none of which matches the context: its request
\* carries the first three; the agent in front of it has none
C16_Witness ==
    /\ pc = "llm"
    /\ idx = 2
    /\ agents[1].docs = <<>>
    /\ Len(agents[2].docs) = 4
    /\ RequestBlock =
           BlockWith(global_context, SubSeq(agents[2].docs, 1, 3))

\* ------------------------------------------------------- no rounds

\* C19: a run with at least one valid agent and turns <= 0 is not rejected and
\* does not fail; it makes no act or service call, logs and emits no message
\* record and leaves every history empty; once started it can only finish, the
\* stream with a done marker whose total_messages is 0, the non-streaming
\* operation with an empty message list.
C19_NoRounds ==
    (Len(ValidNames) >= 1 /\ NumTurns <= 0 /\ pc # "received") =>
       /\ pc \in {"created", "loop", "done"}
       /\ llm_calls = 0
       /\ llm_inflight = <<>>
       /\ messages_log = <<>>
       /\ Emitted = <<>>
       /\ \A i \in 1..Len(agents) : agents[i].history = <<>>
       /\ pc = "loop" => ENABLED Finish /\ ~ENABLED ActCall
       /\ pc = "done" =>
             IF Streaming
             THEN out = <<[type |-> "done", data |-> [total_messages |-> 0]]>>
             ELSE response = [status |-> 200, messages |-> <<>>] /\ out = <<>>
       /\ pc # "done" => out = <<>>

\* a finished stream of a request with a negative turns value
C19_Witness ==
    /\ Streaming
    /\ NumTurns = -1
    /\ Len(agents) = 2
    /\ pc = "done"
    /\ Len(out) = 1

\* ------------------------------------------------------- termination

\* C17: a streaming run with at least one valid agent whose service calls
\* return and whose consumer keeps consuming ends: it reaches done (done
\* marker handed over) or failed (error marker handed over), never both; the
\* marker is the last chunk and the only one of its kind, and no step leaves
\* done or failed.
C17_StreamTerminates ==
    /\ (Streaming /\ Len(ValidNames) >= 1) ~> (pc \in {"done", "failed"})
    /\ [](Streaming =>
            /\ pc = "done" =>
                  ChunksOf("done") = {Len(out)} /\ ChunksOf("error") = {}
            /\ pc = "failed" =>
                  ChunksOf("error") = {Len(out)} /\ ChunksOf("done") = {}
            /\ pc \notin {"done", "failed"} =>
                  ChunksOf("done") = {} /\ ChunksOf("error") = {})
    /\ [][(pc = "done" \/ pc = "failed") => (pc' = pc /\ out' = out)]_vars

\* a stream that ended after two rounds of two agents
C17_Witness ==
    /\ Streaming
    /\ pc = "done"
    /\ Len(out) = 5
    /\ out[5].type = "done"

\* ------------------------------------------------------- the two operations

\* run i streams, run j does not, and both were sent the same body
SameBody(i, j) ==
    /\ runs[i].request.route = "stream"
    /\ runs[j].request.route = "once"
    /\ runs[i].request.data = runs[j].request.data

\* C18: for the same body and the same service responses, with no internal
\* error, the message list simulate_once returns equals, element by element,
\* the message records simulate_stream hands over, and after every turn both
\* have built the same context.
C18_OnceEqualsStream ==
    \A i, j \in DOMAIN runs :
       SameBody(i, j) =>
          LET a == runs[i]
              b == runs[j]
              common == Min(Len(a.llm_outcomes), Len(b.llm_outcomes))
          IN /\ \A k \in 0..common :
                   SubSeq(a.llm_outcomes, 1, k) = SubSeq(b.llm_outcomes, 1, k) =>
                      SubSeq(MessagesIn(a.out), 1, k) = SubSeq(b.messages_log, 1, k)
             /\ (/\ a.llm_outcomes = b.llm_outcomes
                 /\ a.pc \in {"loop", "llm", "yielded", "done", "closed"}
                 /\ b.pc \in {"loop", "llm", "done"}) =>
                   a.global_context = b.global_context
             /\ (a.llm_outcomes = b.llm_outcomes /\ a.pc = "done" /\ b.pc = "done") =>
                   /\ b.response.status = 200
                   /\ b.response.messages = MessagesIn(a.out)
                   /\ Len(a.out) = Len(b.response.messages) + 1

\* both operations finished on the same body, the service having failed on the
\* first call of each and answered the second
C18_Witness ==
    /\ DOMAIN runs = {1, 2}
    /\ SameBody(1, 2)
    /\ runs[1].pc = "done"
    /\ runs[2].pc = "done"
    /\ runs[1].llm_outcomes = runs[2].llm_outcomes
    /\ Len(runs[2].response.messages) = 2
    /\ ~runs[1].llm_outcomes[1].ok
    /\ runs[1].llm_outcomes[2].ok

====
